---- MODULE Spec2Model ----
(***************************************************************************)
(* Model of funclip/video_slicer.py: VideoSlicer.process_videos and the    *)
(* jobs (extract_and_save_frames) it runs on a ThreadPoolExecutor.         *)
(*                                                                         *)
(* Durations are kept in ticks (tenths of a second) so that int(duration)   *)
(* is a real truncation.  A path is a record (dir, stem, suffix); a file name   *)
(* produced by get_timestamp_str is the triple <<hours, minutes, seconds>>.*)
(***************************************************************************)
EXTENDS Integers, Sequences, FiniteSets, TLC

VARIABLES
    interval,      \* self.interval
    video_paths,   \* self.video_paths
    rootExists,    \* self.output_dir exists on disk
    dirs,          \* names of the subdirectories of output_dir on disk
    files,         \* <<subdirectory, file name>> of the images on disk
    pc,            \* position of the thread that called process_videos
    next,          \* index in video_paths of the path the for loop examines next
    log,           \* what the logger recorded, by kind of message
    futures,       \* indices of video_paths whose job was submitted (futures list)
    collected,     \* futures already yielded by as_completed
    jobpc,         \* position of each job
    duration,      \* each job's local variable duration (tenths of a second)
    timestamps,    \* each job's local variable timestamps
    idx,           \* number of entries of timestamps the job's for loop has consumed
    faultsLeft,    \* failures the environment may still inject in this run
    attempted,     \* each job's calls of extract_and_save_frame so far, in order:
                   \* the timestamp and the image path given to ffmpeg
    probes,        \* each job's calls of get_video_resolution and get_video_duration
    hist           \* which call of process_videos this is, the tree the first
                   \* left, whether stale files were added to it, whether two
                   \* jobs of this call have run at the same time

vars == <<interval, video_paths, rootExists, dirs, files, pc, next, log,
          futures, collected, jobpc, duration, timestamps, idx, faultsLeft,
          attempted, probes, hist>>

----------------------------------------------------------------------------
(* Bounds of the model *)

MaxVideos == 2
MaxPoolVideos == 5
MaxFaults == 1
MaxPoolFaults == 0
MaxDuration == 8
MaxInterval == 4
\* resolution of the float durations
TicksPerSecond == 10

(* Program constants *)

MaxWorkers == 4
SecondsPerHour == 3600
SecondsPerMinute == 60

None == "None"

----------------------------------------------------------------------------
(* The files of the environment *)

PathA == [dir |-> "d1", stem |-> "a", suffix |-> "mp4"]
PathA2 == [dir |-> "d2", stem |-> "a", suffix |-> "avi"]
PathB == [dir |-> "d1", stem |-> "b", suffix |-> "mp4"]
PathShort == [dir |-> "d1", stem |-> "s", suffix |-> "mp4"]
PathMissing == [dir |-> "d1", stem |-> "missing", suffix |-> "mp4"]
\* a regular file that is no video: ffprobe finds no stream in it
PathCorrupt == [dir |-> "d1", stem |-> "c", suffix |-> "mp4"]
\* a video cut short: ffmpeg fails from its second second on
PathTruncated == [dir |-> "d2", stem |-> "t", suffix |-> "mov"]

RegularFiles == {PathA, PathA2, PathB, PathShort, PathCorrupt, PathTruncated}

\* ffprobe can read the streams of the file
Probeable(p) == p # PathCorrupt

\* ffmpeg can decode a frame of the file at second t
Decodable(p, t) == p # PathTruncated \/ t < 2

\* the paths a caller passes; a path may occur twice in a list
Paths == {PathA, PathB, PathMissing}

\* what ffprobe prints for format=duration, in ticks
TrueDuration(p) ==
    CASE p = PathA -> 34
      [] p = PathA2 -> 4
      [] p = PathB -> 20
      [] p = PathTruncated -> 30
      [] OTHER -> 4

Intervals == {-2, 0, 2}

SeqsUpTo(S, n) == UNION {[1..k -> S] : k \in 0..n}

InputLists == SeqsUpTo(Paths, MaxVideos)

\* more videos than workers, and a path that is no file
PoolLists ==
    {[i \in 1..(k + 1) |-> IF i <= k THEN PathShort ELSE PathMissing] :
        k \in (MaxWorkers + 1)..MaxPoolVideos}

StaleDirs == {"a", "old"}
StaleFiles == {<<"a", <<0, 0, 9>>>>, <<"old", <<0, 0, 0>>>>}

----------------------------------------------------------------------------
(* Pure functions of the program *)

\* int(duration): truncation toward zero of a float
IntOf(d) == IF d >= 0 THEN d \div TicksPerSecond ELSE -((-d) \div TicksPerSecond)

\* len(range(start, stop, step)) for step # 0
PyRangeLen(start, stop, step) ==
    IF step > 0
    THEN (IF stop > start THEN (stop - start + step - 1) \div step ELSE 0)
    ELSE (IF stop < start THEN (start - stop - step - 1) \div (-step) ELSE 0)

\* list(range(start, stop, step)) for step # 0
PyRange(start, stop, step) ==
    [k \in 1..PyRangeLen(start, stop, step) |-> start + (k - 1) * step]

\* lines 188-190 raise: range() with step 0 (ValueError), timestamps[-1] of
\* an empty list (IndexError)
PlanRaises(d, i) ==
    IF i = 0 THEN TRUE ELSE PyRange(0, IntOf(d) + 1, i) = <<>>

\* mutant: int(duration) is appended without the test of line 189
PlanTimestamps_AlwaysAppend(d, i) == Append(PyRange(0, IntOf(d) + 1, i), IntOf(d))

\* mutant: the grid without the closing entry of line 190
PlanTimestamps_NoClosingFrame(d, i) == PyRange(0, IntOf(d) + 1, i)

\* lines 188-190, when they do not raise
PlanTimestamps(d, i) ==
    LET ts == PyRange(0, IntOf(d) + 1, i)
    IN  IF ts[Len(ts)] # IntOf(d) THEN Append(ts, IntOf(d)) ELSE ts

\* divmod twice; the three numbers are then printed with two digits each
get_timestamp_str(t) ==
    LET hours == t \div SecondsPerHour
        remainder == t % SecondsPerHour
    IN  <<hours, remainder \div SecondsPerMinute, remainder % SecondsPerMinute>>

\* mutant: the check of line 210 left out
is_file_Unchecked(p) == TRUE

\* Path.is_file()
is_file(p) == p \in RegularFiles

\* Path.stem: the final component without its suffix
stem(p) == p.stem

----------------------------------------------------------------------------
(* State *)

Jobs == 1..Len(video_paths)

Active == {"resolution", "duration", "plan", "extract"}
Finished == {"returned", "aborted", "raised"}

Running == {j \in Jobs : jobpc[j] \in Active}

\* mutant: a thread per task
WorkerFree_ThreadPerTask == TRUE

\* a worker thread of the pool is free to take the next work item
WorkerFree == Cardinality(Running) < MaxWorkers

\* mutant: the folder is an attribute of the object that every submission
\* overwrites, and the jobs read it when they write
folder_path_LastSubmitted(j) == stem(video_paths[next - 1])

\* mutant: every job is handed the root itself as its folder
folder_path_Flat(j) == "."

\* line 217: folder_path = self.save_dir / video_path.stem, handed to the job
folder_path(j) == stem(video_paths[j])

FolderExists(j) == rootExists /\ folder_path(j) \in dirs

\* nothing logged yet.  rmtree, mkdir: lines 63/65 and 68/70; skipped: line
\* 211; folderMade, folderFailed: lines 80/82; probeFailed: lines 175/182;
\* jobErrors: line 229
NoLog ==
    [rmtree |-> "none", mkdir |-> "none", skipped |-> {}, folderMade |-> {},
     folderFailed |-> {}, probeFailed |-> {}, jobErrors |-> {}]

NoProbes == [resolution |-> 0, duration |-> 0]

\* the first call of process_videos, no two jobs have run at once yet
NoHist == [run |-> 1, first |-> None, stale |-> FALSE, overlapped |-> FALSE]

\* the environment may make one more operation fail
MayFail == faultsLeft > 0

Charge(ok) == faultsLeft' = IF ok THEN faultsLeft ELSE faultsLeft - 1

Start(lists, roots, faults) ==
    /\ interval \in Intervals
    /\ video_paths \in lists
    /\ faultsLeft = faults
    /\ rootExists \in roots
    /\ dirs = IF rootExists THEN StaleDirs ELSE {}
    /\ files = IF rootExists THEN StaleFiles ELSE {}
    /\ pc = "clear_rmtree"
    /\ next = 1
    /\ log = NoLog
    /\ futures = {}
    /\ collected = {}
    /\ jobpc = [j \in 1..Len(video_paths) |-> "none"]
    /\ duration = [j \in 1..Len(video_paths) |-> None]
    /\ timestamps = [j \in 1..Len(video_paths) |-> <<>>]
    /\ idx = [j \in 1..Len(video_paths) |-> 0]
    /\ attempted = [j \in 1..Len(video_paths) |-> <<>>]
    /\ probes = [j \in 1..Len(video_paths) |-> NoProbes]
    /\ hist = NoHist

Init == Start(InputLists, BOOLEAN, MaxFaults)

PoolInit == Start(PoolLists, {FALSE}, MaxPoolFaults)

----------------------------------------------------------------------------
(* The thread that calls process_videos *)

\* what shutil.rmtree can do to an existing tree: remove it; raise before
\* it removed anything; raise after it removed the images
RmtreeOutcomes == IF MayFail THEN {"ok", "error", "partial"} ELSE {"ok"}

\* mutant: the entries of the old tree are left in place
rmtree_KeepTree(entries) == entries

\* line 62: shutil.rmtree(self.save_dir) removes every entry under the root
rmtree(entries) == entries \ entries

\* clear_output_directory, lines 60-65: shutil.rmtree, its exception logged
ClearRmtree ==
    /\ pc = "clear_rmtree"
    /\ \E o \in (IF rootExists THEN RmtreeOutcomes ELSE {"ok"}) :
         /\ Charge(o = "ok")
         /\ IF ~rootExists
            THEN /\ UNCHANGED <<rootExists, dirs, files, log>>
            ELSE IF o = "ok"
            THEN /\ rootExists' = FALSE
                 /\ dirs' = rmtree(dirs)
                 /\ files' = rmtree(files)
                 /\ log' = [log EXCEPT !.rmtree = "ok"]
            ELSE /\ log' = [log EXCEPT !.rmtree = "error"]
                 /\ files' = IF o = "partial" THEN {} ELSE files
                 /\ UNCHANGED <<rootExists, dirs>>
    /\ pc' = "clear_mkdir"
    /\ UNCHANGED <<attempted, probes, hist,
                   interval, video_paths, next, futures, collected,
                   jobpc, duration, timestamps, idx>>

\* clear_output_directory, lines 66-70: mkdir(parents=True, exist_ok=True),
\* its exception logged; process_videos goes on to the for loop either way
ClearMkdir ==
    /\ pc = "clear_mkdir"
    /\ \E ok \in (IF ~rootExists /\ MayFail THEN BOOLEAN ELSE {TRUE}) :
         /\ Charge(ok)
         /\ IF ok
            THEN /\ rootExists' = TRUE
                 /\ log' = [log EXCEPT !.mkdir = "ok"]
            ELSE /\ log' = [log EXCEPT !.mkdir = "error"]
                 /\ UNCHANGED rootExists
    /\ pc' = "loop"
    /\ UNCHANGED <<attempted, probes, hist,
                   interval, video_paths, dirs, files, next, futures, collected,
                   jobpc, duration, timestamps, idx>>

\* mutant: the loop does not wait for clear_output_directory to return
LoopEnabled_DuringReset == pc \in {"clear_mkdir", "loop"} /\ next <= Len(video_paths)

\* the for loop of process_videos may examine its next path
LoopEnabled == pc = "loop" /\ next <= Len(video_paths)

\* lines 210-212: not a regular file: warning, continue
SkipMissing ==
    /\ LoopEnabled
    /\ ~is_file(video_paths[next])
    /\ log' = [log EXCEPT !.skipped = @ \cup {next}]
    /\ next' = next + 1
    /\ UNCHANGED <<attempted, probes, hist,
                   faultsLeft, interval, video_paths, rootExists, dirs, files, pc, futures,
                   collected, jobpc, duration, timestamps, idx>>

\* lines 214-222: create_folder (mkdir(parents=True, exist_ok=True), its
\* exception logged), then executor.submit
SubmitVideo ==
    /\ LoopEnabled
    /\ is_file(video_paths[next])
    /\ \E ok \in (IF (rootExists /\ stem(video_paths[next]) \in dirs) \/ ~MayFail
                  THEN {TRUE} ELSE BOOLEAN) :
         /\ Charge(ok)
         /\ IF ok
            THEN /\ rootExists' = TRUE
                 /\ dirs' = dirs \cup {stem(video_paths[next])}
                 /\ log' = [log EXCEPT !.folderMade = @ \cup {next}]
            ELSE /\ log' = [log EXCEPT !.folderFailed = @ \cup {next}]
                 /\ UNCHANGED <<rootExists, dirs>>
    /\ futures' = futures \cup {next}
    /\ jobpc' = [jobpc EXCEPT ![next] = "queued"]
    /\ next' = next + 1
    /\ UNCHANGED <<attempted, probes, hist,
                   interval, video_paths, files, pc, collected,
                   duration, timestamps, idx>>

\* the for loop is exhausted: line 225
LoopEnd ==
    /\ pc = "loop"
    /\ next > Len(video_paths)
    /\ pc' = "await"
    /\ UNCHANGED <<attempted, probes, hist,
                   faultsLeft, interval, video_paths, rootExists, dirs, files, next, log,
                   futures, collected, jobpc, duration, timestamps, idx>>

\* mutant: no try/except around future.result()
OnJobException_Propagate == "error"

\* lines 226-229: where the caller's thread goes when future.result() raises
\* the job's exception: except Exception logs it and the loop goes on
OnJobException == "await"

\* lines 225-229: as_completed yields one finished future, future.result()
AwaitCollect(j) ==
    /\ pc = "await"
    /\ j \in futures \ collected
    /\ jobpc[j] \in Finished
    /\ collected' = collected \cup {j}
    /\ IF jobpc[j] = "raised"
       THEN /\ pc' = OnJobException
            /\ log' = [log EXCEPT !.jobErrors = @ \cup {j}]
       ELSE UNCHANGED <<pc, log>>
    /\ UNCHANGED <<attempted, probes, hist,
                   faultsLeft, interval, video_paths, rootExists, dirs, files, next,
                   futures, jobpc, duration, timestamps, idx>>

\* lines 199-231: process_videos has no return statement, the caller gets None
process_videos_result == None

\* mutant: the main thread does not wait for the futures
AllCollected_NoWait == collected \subseteq futures

\* lines 225-229: as_completed(futures) has yielded every future
AllCollected == collected = futures

\* as_completed is exhausted, the with block shuts the executor down
\* (every job has finished), line 231
AwaitEnd ==
    /\ pc = "await"
    /\ AllCollected
    /\ pc' = "done"
    /\ UNCHANGED <<attempted, probes, hist,
                   faultsLeft, interval, video_paths, rootExists, dirs, files, next, log,
                   futures, collected, jobpc, duration, timestamps, idx>>

----------------------------------------------------------------------------
(* The jobs: extract_and_save_frames on a worker thread of the pool *)

\* ThreadPoolExecutor(max_workers=4): a free worker takes the oldest work
\* item of the queue
JobStart(j) ==
    /\ j \in futures
    /\ jobpc[j] = "queued"
    /\ \A i \in futures : i < j => jobpc[i] # "queued"
    /\ WorkerFree
    /\ jobpc' = [jobpc EXCEPT ![j] = "resolution"]
    /\ hist' = [hist EXCEPT !.overlapped = @ \/ Running # {}]
    /\ UNCHANGED <<attempted, probes,
                   faultsLeft, interval, video_paths, rootExists, dirs, files, pc, next, log,
                   futures, collected, duration, timestamps, idx>>

\* mutant: a failed probe is logged and the job stays at the probe, which
\* it calls again
OnProbeFailure_Retry(j) == [k \in DOMAIN jobpc |-> jobpc[k]]

\* mutant: a failed resolution probe is logged and the job goes on
OnProbeFailure_Ignore(j) ==
    [jobpc EXCEPT ![j] = IF @ = "resolution" THEN "duration" ELSE "aborted"]

\* mutant: a failed probe also cancels the jobs still waiting in the queue
OnProbeFailure_CancelPending(j) ==
    [k \in DOMAIN jobpc |-> IF k = j \/ jobpc[k] = "queued" THEN "aborted" ELSE jobpc[k]]

\* lines 174-176 and 181-183: the probe gave None: error logged, return
OnProbeFailure(j) == [jobpc EXCEPT ![j] = "aborted"]

\* whether ffprobe succeeds: never on a file it cannot read, and the
\* environment may make it fail on any file
ProbeOutcomes(p) ==
    IF ~Probeable(p) THEN {FALSE} ELSE IF MayFail THEN BOOLEAN ELSE {TRUE}

\* lines 173-176: get_video_resolution (ffprobe; any exception gives None)
ProbeResolution(j) ==
    /\ j \in Jobs
    /\ jobpc[j] = "resolution"
    /\ probes' = [probes EXCEPT ![j].resolution = @ + 1]
    /\ \E ok \in ProbeOutcomes(video_paths[j]) :
         /\ Charge(ok \/ ~Probeable(video_paths[j]))
         /\ IF ok
            THEN /\ jobpc' = [jobpc EXCEPT ![j] = "duration"]
                 /\ UNCHANGED log
            ELSE /\ jobpc' = OnProbeFailure(j)
                 /\ log' = [log EXCEPT !.probeFailed = @ \cup {j}]
    /\ UNCHANGED <<attempted, hist,
                   interval, video_paths, rootExists, dirs, files, pc, next,
                   futures, collected, duration, timestamps, idx>>

\* lines 180-183: get_video_duration (ffprobe; any exception gives None)
ProbeDuration(j) ==
    /\ j \in Jobs
    /\ jobpc[j] = "duration"
    /\ probes' = [probes EXCEPT ![j].duration = @ + 1]
    /\ \E ok \in ProbeOutcomes(video_paths[j]) :
         /\ Charge(ok \/ ~Probeable(video_paths[j]))
         /\ IF ok
            THEN /\ duration' = [duration EXCEPT ![j] = TrueDuration(video_paths[j])]
                 /\ jobpc' = [jobpc EXCEPT ![j] = "plan"]
                 /\ UNCHANGED log
            ELSE /\ jobpc' = OnProbeFailure(j)
                 /\ log' = [log EXCEPT !.probeFailed = @ \cup {j}]
                 /\ UNCHANGED duration
    /\ UNCHANGED <<attempted, hist,
                   interval, video_paths, rootExists, dirs, files, pc, next,
                   futures, collected, timestamps, idx>>

\* lines 187-190: the timestamp grid, or the exception range() or
\* timestamps[-1] raises, which ends the job
Plan(j) ==
    /\ j \in Jobs
    /\ jobpc[j] = "plan"
    /\ IF PlanRaises(duration[j], interval)
       THEN /\ jobpc' = [jobpc EXCEPT ![j] = "raised"]
            /\ UNCHANGED timestamps
       ELSE /\ timestamps' = [timestamps EXCEPT ![j] = PlanTimestamps(duration[j], interval)]
            /\ jobpc' = [jobpc EXCEPT ![j] = "extract"]
    /\ UNCHANGED <<attempted, probes, hist,
                   faultsLeft, interval, video_paths, rootExists, dirs, files, pc, next, log,
                   futures, collected, duration, idx>>

\* mutant: the loop walks the grid from its end
NextTimestamp_Reversed(j) == timestamps[j][Len(timestamps[j]) - idx[j]]

\* line 192: the timestamp the for loop hands to extract_and_save_frame next
NextTimestamp(j) == timestamps[j][idx[j] + 1]

\* what ffmpeg does when the environment does not interfere
ExtractResult(j) ==
    IF FolderExists(j) /\ Decodable(video_paths[j], NextTimestamp(j))
    THEN "ok" ELSE "CalledProcessError"

\* what subprocess.run(ffmpeg ..., check=True) can do: write the image;
\* exit non-zero (CalledProcessError; always so when the output folder does
\* not exist); fail to start the process (OSError)
ExtractOutcomes(j) ==
    {ExtractResult(j)} \cup (IF MayFail THEN {"CalledProcessError", "OSError"} ELSE {})

\* lines 192-197 with extract_and_save_frame, lines 159-164: one iteration
\* of the for loop; only CalledProcessError is caught
ExtractFrame(j) ==
    /\ j \in Jobs
    /\ jobpc[j] = "extract"
    /\ \E o \in ExtractOutcomes(j) :
         LET t == NextTimestamp(j)
             image_path == <<folder_path(j), get_timestamp_str(t)>>
         IN  /\ Charge(o = ExtractResult(j))
             /\ files' = IF o = "ok" THEN files \cup {image_path} ELSE files
             /\ attempted' = [attempted EXCEPT ![j] =
                    Append(@, [t |-> t, path |-> image_path])]
             /\ idx' = [idx EXCEPT ![j] = @ + 1]
             /\ jobpc' = [jobpc EXCEPT ![j] =
                    IF o = "OSError" THEN "raised"
                    ELSE IF idx[j] + 1 = Len(timestamps[j]) THEN "returned"
                    ELSE "extract"]
    /\ UNCHANGED <<probes, hist,
                   interval, video_paths, rootExists, dirs, pc, next, log,
                   futures, collected, duration, timestamps>>

----------------------------------------------------------------------------

Next ==
    \/ ClearRmtree
    \/ ClearMkdir
    \/ SkipMissing
    \/ SubmitVideo
    \/ LoopEnd
    \/ \E j \in Jobs : AwaitCollect(j)
    \/ AwaitEnd
    \/ \E j \in Jobs : JobStart(j)
    \/ \E j \in Jobs : ProbeResolution(j)
    \/ \E j \in Jobs : ProbeDuration(j)
    \/ \E j \in Jobs : Plan(j)
    \/ \E j \in Jobs : ExtractFrame(j)

Spec == Init /\ [][Next]_vars

\* the planning step alone, over every duration and interval of the bounds:
\* one job that has just read its duration
PlanInit ==
    /\ interval \in (-1)..MaxInterval
    /\ video_paths = <<PathA>>
    /\ faultsLeft = 0
    /\ rootExists = TRUE
    /\ dirs = {stem(PathA)}
    /\ files = {}
    /\ pc = "await"
    /\ next = 2
    /\ log = [NoLog EXCEPT !.mkdir = "ok", !.folderMade = {1}]
    /\ futures = {1}
    /\ collected = {}
    /\ jobpc = <<"plan">>
    /\ duration \in [{1} -> 0..(MaxDuration * TicksPerSecond + TicksPerSecond - 1)]
    /\ timestamps = <<<<>>>>
    /\ idx = <<0>>
    /\ attempted = <<<<>>>>
    /\ probes = <<[resolution |-> 1, duration |-> 1]>>
    /\ hist = NoHist

PlanNext == \E j \in Jobs : Plan(j)

PlanSpec == PlanInit /\ [][PlanNext]_vars

PoolSpec == PoolInit /\ [][Next]_vars

\* the output tree: whether the root exists, its subdirectories, its images
Tree == <<rootExists, dirs, files>>

\* inputs whose probes and extractions give the same result in every run:
\* videos, two of them with one base name, a file ffprobe cannot read, a
\* video ffmpeg fails on, a path that is no file
TwicePaths == {PathA, PathA2, PathCorrupt, PathTruncated, PathMissing}

TwiceInit == Start(SeqsUpTo(TwicePaths, MaxVideos), BOOLEAN, 0)

\* process_videos has returned and the caller calls it again on the same
\* VideoSlicer; in between, unrelated files may have appeared under the root
RunAgain ==
    /\ pc = "done"
    /\ hist.run = 1
    /\ \E stale \in BOOLEAN :
         /\ hist' = [run |-> 2, first |-> Tree, stale |-> stale, overlapped |-> FALSE]
         /\ dirs' = IF stale THEN dirs \cup StaleDirs ELSE dirs
         /\ files' = IF stale THEN files \cup StaleFiles ELSE files
    /\ pc' = "clear_rmtree"
    /\ next' = 1
    /\ log' = NoLog
    /\ futures' = {}
    /\ collected' = {}
    /\ jobpc' = [j \in Jobs |-> "none"]
    /\ duration' = [j \in Jobs |-> None]
    /\ timestamps' = [j \in Jobs |-> <<>>]
    /\ idx' = [j \in Jobs |-> 0]
    /\ attempted' = [j \in Jobs |-> <<>>]
    /\ probes' = [j \in Jobs |-> NoProbes]
    /\ UNCHANGED <<interval, video_paths, rootExists, faultsLeft>>

TwiceNext == Next \/ RunAgain

TwiceSpec == TwiceInit /\ [][TwiceNext]_vars

\* the elements of a sequence
Range(seq) == {seq[k] : k \in 1..Len(seq)}

\* the images the job of path p writes when nothing interferes with it:
\* none when a probe fails or the plan raises, else the decodable frames
\* of its grid
ImagesOf(p, i) ==
    IF ~Probeable(p) THEN {}
    ELSE IF PlanRaises(TrueDuration(p), i) THEN {}
    ELSE {<<stem(p), get_timestamp_str(t)>> :
            t \in {u \in Range(PlanTimestamps(TrueDuration(p), i)) : Decodable(p, u)}}

\* the tree a call leaves, computed from its inputs alone: the root, a
\* folder for every path that is a file, the images of every job
ExpectedTree(paths, i) ==
    LET given == {p \in Range(paths) : is_file(p)}
    IN  <<TRUE, {stem(p) : p \in given}, UNION {ImagesOf(p, i) : p \in given}>>

\* the pool's threads and the main thread are scheduled by the operating
\* system and every ffprobe and ffmpeg process terminates: a run that can
\* take a step eventually takes one
FairPoolSpec == Start(PoolLists, {FALSE}, 0) /\ [][Next]_vars /\ WF_vars(Next)

----------------------------------------------------------------------------
(* Properties *)

TypeOK ==
    /\ pc \in {"clear_rmtree", "clear_mkdir", "loop", "await", "done", "error"}
    /\ next \in 1..(Len(video_paths) + 1)
    /\ futures \subseteq Jobs
    /\ collected \subseteq futures
    /\ \A j \in Jobs : jobpc[j] \in {"none", "queued"} \cup Active \cup Finished
    /\ faultsLeft \in Nat
    /\ \A j \in Jobs : Len(attempted[j]) = idx[j]
    /\ \A j \in Jobs : probes[j].resolution \in Nat /\ probes[j].duration \in Nat
    /\ hist.run \in {1, 2}

StrictlyIncreasing(ts) == \A k \in 1..(Len(ts) - 1) : ts[k] < ts[k + 1]

ResetReturned == log.mkdir # "none"

ResetFailed == log.rmtree = "error" \/ log.mkdir = "error"

\* the images of job j's whole grid are on disk
AllFramesWritten(j) ==
    \A k \in 1..Len(timestamps[j]) :
        <<folder_path(j), get_timestamp_str(timestamps[j][k])>> \in files

\* C1: for every duration D >= 0 and interval I > 0 the grid a job plans is
\* strictly increasing, starts at 0 and ends with floor(D), aligned or not.
C1_GridShape ==
    \A j \in Jobs :
        (jobpc[j] = "extract" /\ interval > 0 /\ duration[j] >= 0) =>
            /\ timestamps[j] # <<>>
            /\ timestamps[j][1] = 0
            /\ StrictlyIncreasing(timestamps[j])
            /\ timestamps[j][Len(timestamps[j])] * TicksPerSecond <= duration[j]
            /\ duration[j] < (timestamps[j][Len(timestamps[j])] + 1) * TicksPerSecond

\* a planned grid whose closing entry floor(D) is not a multiple of I
C1_Witness ==
    \E j \in Jobs :
        /\ jobpc[j] = "extract"
        /\ interval > 1
        /\ Len(timestamps[j]) >= 3
        /\ timestamps[j][Len(timestamps[j])] % interval # 0
        /\ duration[j] % TicksPerSecond # 0

\* C2: at every moment at most 4 jobs are executing, however many videos
\* were submitted; the other submitted jobs wait in the queue.
C2_AtMostFourRunning == Cardinality(Running) <= 4

\* four jobs are executing and a fifth waits for a worker
C2_Witness ==
    /\ Cardinality(Running) = 4
    /\ \E j \in futures : jobpc[j] = "queued"

\* C3: clear_output_directory has returned before any subdirectory is
\* created, any job is submitted and any job takes a step.
C3_ResetBeforeJobs ==
    (\/ futures # {}
     \/ log.folderMade # {}
     \/ log.folderFailed # {}
     \/ \E j \in Jobs : jobpc[j] # "none")
        => (ResetReturned /\ pc \notin {"clear_rmtree", "clear_mkdir"})

\* a job is running after a reset that deleted an existing root
C3_Witness ==
    /\ log.rmtree = "ok"
    /\ log.mkdir = "ok"
    /\ \E j \in Jobs : jobpc[j] \in Active

\* C4: no job reaches the planning step with an interval <= 0.
C4_IntervalRejected ==
    \A j \in Jobs : jobpc[j] = "plan" => interval > 0

\* C5: a probe failure in job b never makes job a fail: a is aborted only by
\* its own probe failure, raises only at its own planning or extraction, and
\* otherwise has attempted its whole grid and returned when the run ends.
C5_FaultIsolation ==
    \A a \in futures : \A b \in futures :
        (a # b /\ b \in log.probeFailed) =>
            /\ jobpc[a] = "aborted" => a \in log.probeFailed
            /\ jobpc[a] = "raised" => (idx[a] > 0 \/ PlanRaises(duration[a], interval))
            /\ (pc = "done" /\ jobpc[a] \notin {"aborted", "raised"}) =>
                  /\ jobpc[a] = "returned"
                  /\ timestamps[a] = PlanTimestamps(TrueDuration(video_paths[a]), interval)
                  /\ idx[a] = Len(timestamps[a])

\* the run is over, b's probe failed, a extracted every frame of its grid
C5_Witness ==
    /\ pc = "done"
    /\ \E a \in futures : \E b \in futures :
        /\ a # b
        /\ b \in log.probeFailed
        /\ jobpc[a] = "returned"
        /\ Len(timestamps[a]) >= 2
        /\ AllFramesWritten(a)

\* C6: a job that has planned its grid attempts every timestamp of it,
\* whatever the failure of a single extraction.
C6_FrameFailureIsolated ==
    \A j \in Jobs :
        (jobpc[j] \in Finished /\ timestamps[j] # <<>>) => idx[j] = Len(timestamps[j])

\* C7: every examined path that is no regular file is logged as skipped and
\* gets neither a folder nor a job; every examined regular file gets a job;
\* the loop examines every path of the list.
C7_SkipMissing ==
    /\ \A i \in 1..(next - 1) :
          IF video_paths[i] \in RegularFiles
          THEN i \in futures /\ i \notin log.skipped
          ELSE /\ i \in log.skipped
               /\ i \notin futures
               /\ i \notin log.folderMade \cup log.folderFailed
               /\ jobpc[i] = "none"
    /\ \A i \in next..Len(video_paths) : i \notin futures \cup log.skipped
    /\ pc \in {"await", "done"} => next = Len(video_paths) + 1

\* a missing path was skipped and a later regular file got its job
C7_Witness ==
    \E i \in log.skipped : \E k \in futures :
        /\ i < k
        /\ stem(video_paths[i]) \notin dirs
        /\ jobpc[k] # "none"

\* C8: after a failed reset of the root no subdirectory is created and no
\* job is submitted.
C8_ResetFailureFatal ==
    ResetFailed =>
        /\ futures = {}
        /\ log.folderMade = {}
        /\ \A j \in Jobs : jobpc[j] = "none"

\* C9: a video whose subdirectory could not be created gets no normally
\* running job: it never probes and never extracts.
C9_FolderFailureFailsJob ==
    \A j \in log.folderFailed : jobpc[j] \notin Active

C11_ReturnsAfterAllJobs ==
    /\ [](pc = "done" => \A j \in futures : jobpc[j] \in Finished)
    /\ <>(pc = "done" /\ futures = {j \in Jobs : is_file(video_paths[j])})

\* the call has returned from a run with more jobs than workers
C11_Witness ==
    /\ pc = "done"
    /\ Cardinality(futures) > MaxWorkers
    /\ \A j \in futures : jobpc[j] = "returned"

\* C12: with deterministic probe and extraction results, a second call of
\* process_videos on the same inputs and the same root leaves the tree the
\* first call left: the same directories and the same image files, whether
\* the root held only the first run's files or unrelated stale files too.
C12_SecondRunSameTree ==
    (hist.run = 2 /\ pc = "done") => Tree = hist.first

\* a second run has returned, over a tree that held images of the first run
\* and stale files, with a job that wrote images and a job that did not
C12_Witness ==
    /\ hist.run = 2
    /\ pc = "done"
    /\ hist.stale
    /\ hist.first[3] # {}
    /\ \E j \in futures : jobpc[j] = "returned" /\ AllFramesWritten(j)
    /\ \E j \in futures : jobpc[j] \in {"aborted", "raised"}

C14_RunReportReturned ==
    pc = "done" =>
        /\ process_videos_result # None
        /\ process_videos_result.succeeded + process_videos_result.skipped
               + process_videos_result.failed = Len(video_paths)

\* the whole seconds of a duration given in ticks
Floor(d) == CHOOSE n \in 0..(MaxDuration + 1) :
                n * TicksPerSecond <= d /\ d < (n + 1) * TicksPerSecond

RECURSIVE Ascending(_)
\* the numbers of a finite set, smallest first
Ascending(S) ==
    IF S = {} THEN <<>>
    ELSE LET m == CHOOSE x \in S : \A y \in S : x <= y
         IN  <<m>> \o Ascending(S \ {m})

\* the reference grid: the multiples of i up to floor(d) in increasing
\* order, then floor(d) when it is not one of them
ReferenceGrid(d, i) ==
    LET multiples == Ascending({m \in 0..Floor(d) : m % i = 0})
    IN  IF Floor(d) % i = 0 THEN multiples ELSE Append(multiples, Floor(d))

\* C15: for every duration D >= 0 and interval I > 0 the planned grid is the
\* reference sequence: the multiples of I up to floor(D), then floor(D)
\* exactly when it is not a multiple of I; D < I gives [0, floor(D)] or [0],
\* D = 6.0 with I = 3 gives [0, 3, 6], D = 7.4 with I = 3 gives [0, 3, 6, 7].
C15_GridIsReference ==
    \A j \in Jobs :
        (jobpc[j] = "extract" /\ interval > 0 /\ duration[j] >= 0) =>
            /\ timestamps[j] = ReferenceGrid(duration[j], interval)
            /\ duration[j] < interval * TicksPerSecond =>
                   timestamps[j] = IF duration[j] < TicksPerSecond
                                   THEN <<0>> ELSE <<0, Floor(duration[j])>>
            /\ (duration[j] = 6 * TicksPerSecond /\ interval = 3) =>
                   timestamps[j] = <<0, 3, 6>>
            /\ (duration[j] = 7 * TicksPerSecond + 4 /\ interval = 3) =>
                   timestamps[j] = <<0, 3, 6, 7>>

\* the grid of a 6.0 s video at interval 3: the last multiple is floor(D)
C15_Witness ==
    \E j \in Jobs :
        /\ jobpc[j] = "extract"
        /\ duration[j] = 6 * TicksPerSecond
        /\ interval = 3
        /\ timestamps[j] = <<0, 3, 6>>

\* the jobs that have an ffprobe or ffmpeg process running or about to run:
\* a job is one thread and subprocess.run blocks it, so each has at most one
InFlight == {j \in Jobs : jobpc[j] \in {"resolution", "duration", "extract"}}

\* the timestamps job j has handed to extract_and_save_frame, in order
AttemptedTimes(j) == [k \in 1..Len(attempted[j]) |-> attempted[j][k].t]

Written(j) == {attempted[j][k].path : k \in 1..Len(attempted[j])}

\* every image path of a job lies in the folder named after its own video,
\* and no image path was given to ffmpeg by two jobs
OwnFolderOnly ==
    /\ \A j \in Jobs : \A w \in Written(j) : w[1] = stem(video_paths[j])
    /\ \A i, j \in Jobs : i # j => Written(i) \cap Written(j) = {}

\* the files of the list have pairwise distinct base names
DistinctNames ==
    \A i, j \in Jobs :
        (i # j /\ is_file(video_paths[i]) /\ is_file(video_paths[j])) =>
            stem(video_paths[i]) # stem(video_paths[j])

\* C17 as stated: for every list of input paths each job writes only inside
\* the subdirectory of its own video and no output path is written by two
\* jobs of the run.
C17_JobsWriteDisjointPaths == OwnFolderOnly

\* C17 amended: for every list of input paths whose files have pairwise
\* distinct base names, each job writes only inside the subdirectory of its
\* own video and no output path is written by two jobs of the run.
C17_DistinctNamesDisjointPaths == DistinctNames => OwnFolderOnly

\* two videos from different source directories with different base names
\* have both had images written
C17_Witness ==
    \E i, j \in Jobs :
        /\ video_paths[i].dir # video_paths[j].dir
        /\ DistinctNames
        /\ \E w \in Written(i) : w \in files
        /\ \E w \in Written(j) : w \in files

\* C18: a job whose resolution probe or duration probe failed has ended as
\* failed, and no frame extraction was planned or attempted for its video.
C18_ProbeFailureAborts ==
    \A j \in Jobs :
        j \in log.probeFailed =>
            /\ jobpc[j] = "aborted"
            /\ timestamps[j] = <<>>
            /\ attempted[j] = <<>>
            /\ \A w \in files \ StaleFiles : w[1] = folder_path(j) =>
                   \E i \in Jobs \ {j} : w \in Written(i)

\* the call has returned; a job's resolution probe succeeded and its duration
\* probe failed
C18_Witness ==
    /\ pc = "done"
    /\ \E j \in log.probeFailed : probes[j].resolution = 1 /\ probes[j].duration = 1

\* C19: no retry within a run: each job has called the resolution probe at
\* most once and the duration probe at most once, a job whose probe failed
\* is not running, and no timestamp was handed to extract_and_save_frame
\* twice by one job, whether its extraction failed or not.
C19_NoRetry ==
    \A j \in Jobs :
        /\ probes[j].resolution <= 1
        /\ probes[j].duration <= 1
        /\ j \in log.probeFailed => j \notin Running
        /\ \A k, l \in 1..Len(attempted[j]) :
              k # l => attempted[j][k].t # attempted[j][l].t
        /\ Len(attempted[j]) <= Len(timestamps[j])

\* the call has returned; a job's extraction failed, its image is missing,
\* and the job went on to write a later image
C19_Witness ==
    /\ pc = "done"
    /\ \E j \in Jobs : \E k, l \in 1..Len(attempted[j]) :
          /\ k < l
          /\ attempted[j][k].path \notin files
          /\ attempted[j][l].path \in files

\* the videos of the run that were processed successfully: their job
\* returned after both probes and the whole grid
Succeeded == {j \in futures : jobpc[j] = "returned"}

\* C20: after a run the root holds one subdirectory per successfully
\* processed video, named by the video's base name without the extension,
\* and none for a video that was skipped or whose job failed.
C20_FoldersOfSucceededOnly ==
    pc = "done" => dirs = {stem(video_paths[j]) : j \in Succeeded}

=============================================================================
